---------------------------- MODULE Spec2Model ----------------------------
(***************************************************************************)
(* The guessing game of src/main.rs as a state machine.                    *)
(*                                                                         *)
(* Text is a sequence of one-character strings.  A u32 is kept at its full *)
(* 32-bit width as two 16-bit limbs [hi, lo] (value = hi * 2^16 + lo), so  *)
(* that the overflow check of str::parse::<u32> is the real one.           *)
(***************************************************************************)
EXTENDS Integers, Sequences, FiniteSets, TLC

VARIABLES
    pc,      \* position of main: greet, draw, prompt, read, parse, echo, cmp, done, panicked
    secret,  \* secret_number: <<>> before line 19, <<v>> after
    guess,   \* the String `guess` of line 30 (kept until it is rebound)
    num,     \* the u32 `guess` of line 84: <<>> or <<v>>
    out,     \* standard output, one record per println!
    err,     \* standard error (the panic message)
    exit,    \* <<>> while running, <<code>> once the process has ended
    reads,   \* number of read_line calls made so far
    readResult  \* what the last read_line returned: none, line, eof (Ok(0)), err

vars == <<pc, secret, guess, num, out, err, exit, reads, readResult>>

---------------------------------------------------------------------------
(* Bounds of the model *)

\* read_line calls explored per run
MaxReads == 2

---------------------------------------------------------------------------
(* u32 arithmetic at full width *)

\* one limb is 16 bits; a u32 is two limbs
Limb == 65536

U32Of(n) == [hi |-> n \div Limb, lo |-> n % Limb]

U32Zero == U32Of(0)

\* variant: the multiplication of a 31-bit (i32) accumulator
CheckedMul10Narrow(v) ==
    LET p  == v.lo * 10
        hi == v.hi * 10 + (p \div Limb)
    IN  IF 2 * hi >= Limb THEN <<>> ELSE << [hi |-> hi, lo |-> p % Limb] >>

\* u32::checked_mul(10): <<>> on overflow
CheckedMul10(v) ==
    LET p  == v.lo * 10
        hi == v.hi * 10 + (p \div Limb)
    IN  IF hi >= Limb THEN <<>> ELSE << [hi |-> hi, lo |-> p % Limb] >>

\* u32::checked_add(d) for a digit d: <<>> on overflow
CheckedAdd(v, d) ==
    LET s  == v.lo + d
        hi == v.hi + (s \div Limb)
    IN  IF hi >= Limb THEN <<>> ELSE << [hi |-> hi, lo |-> s % Limb] >>

\* Ord::cmp on u32
CmpLess(a, b) == a.hi < b.hi \/ (a.hi = b.hi /\ a.lo < b.lo)

\* variant: the operands of cmp exchanged
CmpSwapped(a, b) ==
    IF CmpLess(b, a) THEN "Less"
    ELSE IF CmpLess(a, b) THEN "Greater"
    ELSE "Equal"

Cmp(a, b) ==
    IF CmpLess(a, b) THEN "Less"
    ELSE IF CmpLess(b, a) THEN "Greater"
    ELSE "Equal"

---------------------------------------------------------------------------
(* Text *)

DigitChars == <<"0", "1", "2", "3", "4", "5", "6", "7", "8", "9">>

IsDigit(c) == \E i \in 1..10 : DigitChars[i] = c

\* char::to_digit(10)
ToDigit(c) == (CHOOSE i \in 1..10 : DigitChars[i] = c) - 1

\* char::is_whitespace, on the characters of the model's alphabet
IsWhitespace(c) == c \in {" ", "\t", "\n", "\r"}

RECURSIVE TrimStart(_)
TrimStart(s) ==
    IF s # <<>> /\ IsWhitespace(Head(s)) THEN TrimStart(Tail(s)) ELSE s

RECURSIVE TrimEnd(_)
TrimEnd(s) ==
    IF s # <<>> /\ IsWhitespace(s[Len(s)])
    THEN TrimEnd(SubSeq(s, 1, Len(s) - 1))
    ELSE s

\* variant: only the front is stripped, the newline stays
TrimStartOnly(s) == TrimStart(s)

\* str::trim
Trim(s) == TrimEnd(TrimStart(s))

\* the digit loop of u32::from_str_radix: <<>> is Err, <<v>> is Ok(v)
RECURSIVE ParseDigits(_, _)
ParseDigits(digits, acc) ==
    IF digits = <<>> THEN << acc >>
    ELSE IF ~IsDigit(Head(digits)) THEN <<>>
    ELSE LET m == CheckedMul10(acc)
         IN  IF m = <<>> THEN <<>>
             ELSE LET a == CheckedAdd(m[1], ToDigit(Head(digits)))
                  IN  IF a = <<>> THEN <<>>
                      ELSE ParseDigits(Tail(digits), a[1])

\* variant: the target type is NonZeroU32, which has no zero
ParseNonZero(src) ==
    IF src = <<>> THEN <<>>
    ELSE LET digits == IF Head(src) = "+" THEN Tail(src) ELSE src
             r == IF digits = <<>> THEN <<>> ELSE ParseDigits(digits, U32Zero)
         IN  IF r = << U32Zero >> THEN <<>> ELSE r

\* str::parse::<u32>: an optional '+', then at least one digit; no '-'
ParseU32(src) ==
    IF src = <<>> THEN <<>>
    ELSE LET digits == IF Head(src) = "+" THEN Tail(src) ELSE src
         IN  IF digits = <<>> THEN <<>> ELSE ParseDigits(digits, U32Zero)

\* <u32 as Display>::fmt: the decimal digits, no sign, no leading zero
RECURSIVE FmtU32(_)
FmtU32(v) ==
    LET t == (v.hi % 10) * Limb + v.lo
        q == [hi |-> v.hi \div 10, lo |-> t \div 10]
        d == DigitChars[(t % 10) + 1]
    IN  IF q = U32Zero THEN << d >> ELSE Append(FmtU32(q), d)

---------------------------------------------------------------------------
(* Output *)

Line(text, arg) == [text |-> text, arg |-> arg]

Greeting   == Line("Guess the number!!", <<>>)
PromptMsg  == Line("Please input your guess.", <<>>)
Guessed(v) == Line("You guessed: ", FmtU32(v))
TooSmall   == Line("Too small!", <<>>)
TooBig     == Line("Too big!", <<>>)
YouWin     == Line("You win!!", <<>>)

\* the verdict printed for an ordering
Verdict(ord) ==
    IF ord = "Less" THEN TooSmall
    ELSE IF ord = "Greater" THEN TooBig
    ELSE YouWin

\* variant: the Equal arm without its break
AfterVerdictNoBreak(ord) == "prompt"

\* where the match of lines 91-98 leaves the loop
AfterVerdict(ord) == IF ord = "Equal" THEN "done" ELSE "prompt"

\* exit status of a Rust process whose main thread panicked
PanicExit == 101

\* exit status of a Rust process whose main returned
NormalExit == 0

ExpectMsg == "Failed to read line"

---------------------------------------------------------------------------
(* Secret *)

\* gen_range(1, 101): low inclusive, high exclusive
SecretLow == 1
SecretHigh == 101

\* variant: the high end taken as inclusive
SecretRangeInclusive == { U32Of(n) : n \in SecretLow .. SecretHigh }

SecretRange == { U32Of(n) : n \in SecretLow .. (SecretHigh - 1) }

---------------------------------------------------------------------------
(* Standard input: what one read_line call can return *)

\* Ok(n) with the line appended to the buffer
OkLine(line) == [ok |-> TRUE, line |-> line]

\* Ok(0): end of input, nothing appended
EofRead == OkLine(<<>>)

\* Err(e): the operating system could not deliver a line
FailedRead == [ok |-> FALSE, line |-> <<>>]

\* decimal text of a natural number
RECURSIVE Dec(_)
Dec(n) ==
    IF n < 10 THEN << DigitChars[n + 1] >>
    ELSE Append(Dec(n \div 10), DigitChars[(n % 10) + 1])

\* decimal text of u32::MAX = 4294967295 and of u32::MAX + 1
U32MaxText  == <<"4", "2", "9", "4", "9", "6", "7", "2", "9", "5">>
U32OverText == <<"4", "2", "9", "4", "9", "6", "7", "2", "9", "6">>

\* the integers typed, as decimal text, for secret s: below, at and above
\* the secret, zero, negative, the largest u32 and the first integer that
\* does not fit one
IntegerTexts(s) ==
    { Dec(0), Dec(s - 1), Dec(s), Dec(s + 1),
      <<"-">> \o Dec(1), <<"-">> \o Dec(s),
      U32MaxText, U32OverText }

\* other spellings str::parse accepts, and text that is no integer
OtherTexts(s) ==
    { <<"+">> \o Dec(s), <<"0", "0">> \o Dec(s),
      <<>>, <<"a", "b", "c">>, <<"3", ".", "5">>, <<"1", " ", "2">>,
      <<"+">>, <<"-">>, Dec(s) \o <<"a">> }

\* whitespace typed around the text; a terminal line ends in "\n"
Paddings ==
    { << <<>>, <<"\n">> >>,
      << <<" ">>, <<"\n">> >>,
      << <<"\t", " ">>, <<" ", "\r", "\n">> >>,
      << <<>>, <<>> >> }

\* the lines a read can deliver when the secret is s
Lines(s) ==
    { p[1] \o t \o p[2] : p \in Paddings, t \in IntegerTexts(s) \cup OtherTexts(s) }
        \ { <<>> }

\* results of a read_line call in the current state; a stream read to its
\* end stays at its end
ReadResults ==
    IF readResult = "eof" THEN { EofRead, FailedRead }
    ELSE { OkLine(l) : l \in Lines(secret[1].lo) } \cup { EofRead, FailedRead }

---------------------------------------------------------------------------
(* main *)

Init ==
    /\ pc = "greet"
    /\ secret = <<>>
    /\ guess = <<>>
    /\ num = <<>>
    /\ out = <<>>
    /\ err = <<>>
    /\ exit = <<>>
    /\ reads = 0
    /\ readResult = "none"

\* line 17
Greet ==
    /\ pc = "greet"
    /\ out' = Append(out, Greeting)
    /\ pc' = "draw"
    /\ UNCHANGED <<secret, guess, num, err, exit, reads, readResult>>

\* line 19
DrawSecret ==
    /\ pc = "draw"
    /\ \E v \in SecretRange : secret' = << v >>
    /\ pc' = "prompt"
    /\ UNCHANGED <<guess, num, out, err, exit, reads, readResult>>

\* line 22, the head of the loop; the model follows at most `limit` reads
PromptUpTo(limit) ==
    /\ pc = "prompt"
    /\ reads < limit
    /\ out' = Append(out, PromptMsg)
    /\ pc' = "read"
    /\ UNCHANGED <<secret, guess, num, err, exit, reads, readResult>>

Prompt == PromptUpTo(MaxReads)

\* variant: a failed read is dropped and the loop goes on
ReadLineRetry(res) ==
    /\ pc = "read"
    /\ reads' = reads + 1
    /\ num' = <<>>
    /\ guess' = res.line
    /\ readResult' = IF ~res.ok THEN "err" ELSE IF res.line = <<>> THEN "eof" ELSE "line"
    /\ pc' = IF res.ok THEN "parse" ELSE "prompt"
    /\ UNCHANGED <<secret, out, err, exit>>

\* lines 30-72: String::new(), read_line, expect
ReadLine(res) ==
    /\ pc = "read"
    /\ reads' = reads + 1
    /\ num' = <<>>
    /\ IF res.ok
       THEN /\ guess' = res.line
            /\ readResult' = IF res.line = <<>> THEN "eof" ELSE "line"
            /\ pc' = "parse"
            /\ UNCHANGED <<err, exit>>
       ELSE /\ guess' = <<>>
            /\ readResult' = "err"
            /\ err' = Append(err, ExpectMsg)
            /\ exit' = << PanicExit >>
            /\ pc' = "panicked"
    /\ UNCHANGED <<secret, out>>

Read == pc = "read" /\ \E res \in ReadResults : ReadLine(res)

\* variant: parse().expect(...) in place of the match
ParseExpect ==
    /\ pc = "parse"
    /\ num' = ParseU32(Trim(guess))
    /\ pc' = IF num' = <<>> THEN "panicked" ELSE "echo"
    /\ err' = IF num' = <<>> THEN Append(err, "Please type a number!") ELSE err
    /\ exit' = IF num' = <<>> THEN << PanicExit >> ELSE exit
    /\ UNCHANGED <<secret, guess, out, reads, readResult>>

\* variant: Err(_) => break
ParseBreak ==
    /\ pc = "parse"
    /\ num' = ParseU32(Trim(guess))
    /\ pc' = IF num' = <<>> THEN "done" ELSE "echo"
    /\ exit' = IF num' = <<>> THEN << NormalExit >> ELSE exit
    /\ UNCHANGED <<secret, guess, out, err, reads, readResult>>

\* lines 84-87: Ok(num) => num, Err(_) => continue
Parse ==
    /\ pc = "parse"
    /\ num' = ParseU32(Trim(guess))
    /\ pc' = IF num' = <<>> THEN "prompt" ELSE "echo"
    /\ UNCHANGED <<secret, guess, out, err, exit, reads, readResult>>

\* variant: the secret is printed in place of the guess
EchoSecret ==
    /\ pc = "echo"
    /\ out' = Append(out, Guessed(secret[1]))
    /\ pc' = "cmp"
    /\ UNCHANGED <<secret, guess, num, err, exit, reads, readResult>>

\* line 89
Echo ==
    /\ pc = "echo"
    /\ out' = Append(out, Guessed(num[1]))
    /\ pc' = "cmp"
    /\ UNCHANGED <<secret, guess, num, err, exit, reads, readResult>>

\* lines 91-98; after the break main returns
Compare ==
    /\ pc = "cmp"
    /\ LET ord == Cmp(num[1], secret[1])
       IN  /\ out' = Append(out, Verdict(ord))
           /\ pc' = AfterVerdict(ord)
           /\ exit' = IF AfterVerdict(ord) = "done" THEN << NormalExit >> ELSE exit
    /\ UNCHANGED <<secret, guess, num, err, reads, readResult>>

Next ==
    \/ Greet
    \/ DrawSecret
    \/ Prompt
    \/ Read
    \/ Parse
    \/ Echo
    \/ Compare

Spec == Init /\ [][Next]_vars

---------------------------------------------------------------------------
(* The scripted run: the three lines secret-1, secret+1, secret *)

Script(s) ==
    << Dec(s - 1) \o <<"\n">>, Dec(s + 1) \o <<"\n">>, Dec(s) \o <<"\n">> >>

ScriptLen == Len(Script(SecretLow))

\* stdin holds the script and then ends
ScriptedRead ==
    /\ pc = "read"
    /\ ReadLine(IF reads < ScriptLen
                THEN OkLine(Script(secret[1].lo)[reads + 1])
                ELSE EofRead)

ScriptedPrompt == PromptUpTo(ScriptLen + MaxReads)

NextScripted ==
    \/ Greet
    \/ DrawSecret
    \/ ScriptedPrompt
    \/ ScriptedRead
    \/ Parse
    \/ Echo
    \/ Compare

SpecScripted == Init /\ [][NextScripted]_vars

---------------------------------------------------------------------------
(* Vocabulary of the properties.  Integers are read off the text typed,    *)
(* digit by digit, independently of the program's own conversions.         *)

Terminated == pc \in {"done", "panicked"}

\* an iteration of the loop has just finished on the line held in `guess`
IterationOver == reads > 0 /\ pc \in {"prompt", "done"}

SecretValue == secret[1].lo

Last(o) == o[Len(o)]

Verdicts == {TooSmall, TooBig, YouWin}

IsGuessed(l) == l.text = "You guessed: "

Count(o, l) == Cardinality({ i \in 1..Len(o) : o[i] = l })

PadChars == {" ", "\t", "\n", "\r"}

\* the line without the whitespace around it
Body(line) ==
    LET ix == { i \in 1..Len(line) : line[i] \notin PadChars }
    IN  IF ix = {} THEN <<>>
        ELSE SubSeq(line, CHOOSE i \in ix : \A j \in ix : i <= j,
                          CHOOSE i \in ix : \A j \in ix : i >= j)

DigitSet == {"0", "1", "2", "3", "4", "5", "6", "7", "8", "9"}

DigitValue(c) == CHOOSE n \in 0..9 : Dec(n) = << c >>

AllDigits(t) == t # <<>> /\ \A i \in 1..Len(t) : t[i] \in DigitSet

\* decimal text of an integer: digits, or "-" and digits
IsIntegerText(t) ==
    \/ AllDigits(t)
    \/ Len(t) > 1 /\ t[1] = "-" /\ AllDigits(Tail(t))

RECURSIVE StripZeros(_)
StripZeros(t) ==
    IF Len(t) > 1 /\ t[1] = "0" THEN StripZeros(Tail(t)) ELSE t

\* the number written by at most three digits
RECURSIVE NatOf(_)
NatOf(t) ==
    IF t = <<>> THEN 0
    ELSE 10 * NatOf(SubSeq(t, 1, Len(t) - 1)) + DigitValue(t[Len(t)])

Short(t) == Len(StripZeros(t)) <= 3

\* the text denotes an integer below / above / equal to the secret
BelowSecret(t) ==
    /\ IsIntegerText(t)
    /\ \/ t[1] = "-"
       \/ Short(t) /\ NatOf(StripZeros(t)) < SecretValue

AboveSecret(t) ==
    /\ AllDigits(t)
    /\ \/ ~Short(t)
       \/ NatOf(StripZeros(t)) > SecretValue

EqualsSecret(t) ==
    AllDigits(t) /\ Short(t) /\ NatOf(StripZeros(t)) = SecretValue

\* a and b have equal length: a is the larger number
DigitsGreater(a, b) ==
    \E i \in 1..Len(a) :
        /\ DigitValue(a[i]) > DigitValue(b[i])
        /\ \A j \in 1..(i - 1) : a[j] = b[j]

\* the digits denote a number of at most 2^32 - 1 = 4294967295
FitsU32(t) ==
    /\ AllDigits(t)
    /\ LET z == StripZeros(t)
       IN  \/ Len(z) < Len(U32MaxText)
           \/ Len(z) = Len(U32MaxText) /\ ~DigitsGreater(z, U32MaxText)

\* text an unsigned 32-bit integer can be read from
IsU32Text(t) ==
    /\ t # <<>>
    /\ FitsU32(IF t[1] = "+" THEN Tail(t) ELSE t)

\* the digits of such a text without sign and leading zeros
Canonical(t) == StripZeros(IF t[1] = "+" THEN Tail(t) ELSE t)

---------------------------------------------------------------------------
(* Properties *)

\* C1: a line whose text is the secret ends the game: "You win!!" is
\* printed once, as the last output, the process exits 0, and no step of
\* main (read, prompt, verdict) follows.
C1_WinTerminates ==
    /\ IterationOver /\ IsU32Text(Body(guess)) /\ EqualsSecret(Canonical(Body(guess)))
         => /\ pc = "done"
            /\ Last(out) = YouWin
            /\ out[Len(out) - 1] = Line("You guessed: ", Dec(SecretValue))
    /\ Count(out, YouWin) > 0 => pc = "done"
    /\ pc = "done"
         => /\ Last(out) = YouWin
            /\ Count(out, YouWin) = 1
            /\ exit = << 0 >>
            /\ err = <<>>
            /\ ~ENABLED Next

\* a win reached after earlier guesses
C1_Witness ==
    /\ pc = "done"
    /\ reads = MaxReads
    /\ Count(out, TooSmall) = MaxReads - 1
    /\ Last(out) = YouWin
    /\ exit = << 0 >>

\* C2 as stated: every integer below the secret, negative ones included,
\* typed as decimal text, gets "Too small!" and the loop goes on.
C2_AnyIntegerBelow ==
    IterationOver /\ BelowSecret(Body(guess))
        => pc = "prompt" /\ Last(out) = TooSmall

\* C2, amended: every integer g with 0 <= g < secret, typed as decimal
\* text without a sign, gets "Too small!" and the loop goes on.
C2_UnsignedBelow ==
    IterationOver /\ AllDigits(Body(guess)) /\ BelowSecret(Body(guess))
        => /\ pc = "prompt"
           /\ Last(out) = TooSmall
           /\ out[Len(out) - 1] = Line("You guessed: ", StripZeros(Body(guess)))
           /\ exit = <<>>

\* zero is below the largest secret
C2_Witness ==
    /\ IterationOver
    /\ Body(guess) = <<"0">>
    /\ SecretValue = 100
    /\ Last(out) = TooSmall

\* C3 as stated: every integer above the secret, also one that does not
\* fit 32 bits, typed as decimal text, gets "Too big!" and the loop goes on.
C3_AnyIntegerAbove ==
    IterationOver /\ AboveSecret(Body(guess))
        => pc = "prompt" /\ Last(out) = TooBig

\* C3, amended: every integer g with secret < g <= 4294967295, typed as
\* decimal text, gets "Too big!" and the loop goes on.
C3_U32Above ==
    IterationOver /\ AboveSecret(Body(guess)) /\ FitsU32(Body(guess))
        => /\ pc = "prompt"
           /\ Last(out) = TooBig
           /\ out[Len(out) - 1] = Line("You guessed: ", StripZeros(Body(guess)))
           /\ exit = <<>>

\* the largest u32 is too big
C3_Witness ==
    /\ IterationOver
    /\ Body(guess) = U32MaxText
    /\ Last(out) = TooBig

C5_ReadFailureAborts ==
    /\ readResult = "err"
         => /\ pc = "panicked"
            /\ err = << "Failed to read line" >>
            /\ exit # <<>> /\ exit[1] # 0
            /\ Last(out) = PromptMsg
            /\ Count(out, PromptMsg) = reads
            /\ num = <<>>
            /\ ~ENABLED Next
    /\ err # <<>> \/ pc = "panicked" => readResult = "err"

\* the second read failed
C5_Witness ==
    /\ readResult = "err"
    /\ reads = MaxReads
    /\ pc = "panicked"
    /\ exit = << 101 >>

\* C6: the secret does not exist before line 19 and no read happens
\* before it; the draw gives a value in 1..100; no later step changes it.
C6_SecretFixed ==
    /\ [](pc \in {"greet", "draw"} => secret = <<>> /\ reads = 0)
    /\ [](pc \notin {"greet", "draw"}
            => secret # <<>> /\ secret[1].hi = 0 /\ secret[1].lo \in 1..100)
    /\ [][pc # "draw" => secret' = secret]_vars

\* the largest secret, after reads that parsed and reads that did not
C6_Witness ==
    /\ reads = MaxReads
    /\ pc = "prompt"
    /\ secret = << [hi |-> 0, lo |-> 100] >>
    /\ Count(out, TooBig) = 1

\* the verdicts printed so far, in order
VerdictsOf(o) == SelectSeq(o, LAMBDA l : l \in Verdicts)

\* C7: with the lines secret-1, secret+1, secret on stdin the verdicts
\* are "Too small!", "Too big!", "You win!!" in that order and no others,
\* one per line read, and the process then exits 0.
C7_ScriptedRun ==
    LET v    == VerdictsOf(out)
        full == << TooSmall, TooBig, YouWin >>
    IN  /\ Len(v) <= 3 /\ v = SubSeq(full, 1, Len(v))
        /\ reads <= 3
        /\ pc \in {"prompt", "done"} => Len(v) = reads
        /\ reads = 3 /\ pc \notin {"parse", "echo", "cmp"} => pc = "done"
        /\ pc = "done"
             => /\ v = full
                /\ exit = << 0 >>
                /\ err = <<>>
                /\ ~ENABLED NextScripted

\* the run for the smallest secret, whose first line is "0"
C7_Witness ==
    /\ pc = "done"
    /\ secret = << [hi |-> 0, lo |-> 1] >>
    /\ reads = 3
    /\ VerdictsOf(out) = << TooSmall, TooBig, YouWin >>

\* what the finished iteration printed: the output after its prompt
IterationOutput ==
    LET k == CHOOSE i \in 1..Len(out) :
                 out[i] = PromptMsg /\ \A j \in (i + 1)..Len(out) : out[j] # PromptMsg
    IN  SubSeq(out, k + 1, Len(out))

\* what the text of an integer gives when it is typed with no padding
Unpadded(t) ==
    LET r == ParseU32(t)
    IN  [num     |-> r,
         printed |-> IF r = <<>> THEN <<>>
                     ELSE << Guessed(r[1]), Verdict(Cmp(r[1], secret[1])) >>]

\* C8: a line that is the decimal text of an integer with whitespace
\* around it gives the Guess, the "You guessed" line and the verdict of
\* the text alone; when the text fits a u32 the line echoes its digits.
C8_PaddingIgnored ==
    IterationOver /\ IsIntegerText(Body(guess))
        => /\ num = Unpadded(Body(guess)).num
           /\ IterationOutput = Unpadded(Body(guess)).printed
           /\ FitsU32(Body(guess))
                => /\ Len(IterationOutput) = 2
                   /\ IterationOutput[1] = Line("You guessed: ", StripZeros(Body(guess)))

\* "0" typed between a tab and a space and a space, "\r\n"
C8_Witness ==
    /\ IterationOver
    /\ guess = <<"\t", " ", "0", " ", "\r", "\n">>
    /\ num = << [hi |-> 0, lo |-> 0] >>
    /\ IterationOutput = << Line("You guessed: ", <<"0">>), TooSmall >>

C10_OutputOrder ==
    /\ pc = "greet" => out = <<>>
    /\ pc # "greet" => out # <<>> /\ out[1] = Greeting
    /\ Count(out, Greeting) <= 1
    /\ Count(out, PromptMsg) = reads + (IF pc = "read" THEN 1 ELSE 0)
    /\ pc = "read" => Last(out) = PromptMsg
    /\ \A i \in 1..Len(out) :
         /\ out[i] \in Verdicts
              => i > 2 /\ IsGuessed(out[i - 1]) /\ out[i - 2] = PromptMsg
         /\ IsGuessed(out[i])
              => /\ out[i - 1] = PromptMsg
                 /\ IF i < Len(out) THEN out[i + 1] \in Verdicts ELSE pc = "cmp"
    /\ pc = "cmp" \/ (IterationOver /\ Last(out) \in Verdicts)
         => IterationOutput[1] = Line("You guessed: ", Canonical(Body(guess)))
    /\ IterationOver /\ IsU32Text(Body(guess))
         => Len(IterationOutput) = 2 /\ Last(out) \in Verdicts

\* a guess of zero and then the winning guess of 100
C10_Witness ==
    /\ pc = "done"
    /\ out = << Greeting,
                PromptMsg, Line("You guessed: ", <<"0">>), TooSmall,
                PromptMsg, Line("You guessed: ", <<"1", "0", "0">>), YouWin >>

===========================================================================
